---- MODULE Spec2Model ----
(***************************************************************************)
(* Model of the Dynamic World comparison backend.                          *)
(*                                                                         *)
(*   src/gee_functions.py  the comparison pipeline (AOI, yearly layers,    *)
(*                         change mask, thumbnails, tile templates)        *)
(*   src/main.py           the two HTTP handlers /compare_abudhabi_dw and  *)
(*                         /chat, and the optional OpenAI client           *)
(*                                                                         *)
(* Coordinates are kept in hundredths of a degree (54.16 is 5416), so that *)
(* every coordinate of the source is an integer here.  Years are integers, *)
(* as the request models and the tool schema declare them, so int(year) is *)
(* the identity on them.                                                   *)
(*                                                                         *)
(* The Earth Engine client library and the OpenAI service are the          *)
(* environment.  Every ee call the code makes is written to a log, in the  *)
(* order the code makes it; from the first layer build on, a call may      *)
(* raise.  Building a rectangle from four floats is client-side and does   *)
(* not raise.  The URL a render call returns is a function of the request. *)
(***************************************************************************)
EXTENDS Integers, Sequences, FiniteSets, TLC

\* ------------------------------------------------------------------ bounds

\* A location string, or a roi_bounds array, has at most MaxParts parts.
MaxParts == 4
\* The pixel grid of the change-detection model is 1..NumPixels.
NumPixels == 2
\* The labels observed in the modelled Dynamic World data are 0..MaxLabel.
MaxLabel == 2

\* ------------------------------------------------------- gee_functions.py

YEARS == <<2020, 2021, 2022, 2023, 2024>>

DEFAULT_RECT_BOUNDS == <<5416, 2429, 5474, 2461>>

\* `x in YEARS`
InYears(y) == \E i \in 1..Len(YEARS) : YEARS[i] = y

\* A part of a comma-separated location string, or an element of a
\* roi_bounds array: text that float() accepts, with its value, or not.
Num(v) == [t |-> "num", v |-> v]
Word == [t |-> "txt", v |-> 0]

\* float(x) raises on a part that is no number.
FloatRaises(p) == p.t # "num"
Float(p) == p.v

\* One call into the ee library: what is asked (op), of which layer (kind),
\* for which years, over which rectangle.
EECall(op, kind, years, roi) ==
    [op |-> op, kind |-> kind, years |-> years, roi |-> roi]

\* What a render call returns for a request.
Url(call) == [url |-> call.op, kind |-> call.kind, years |-> call.years,
              roi |-> call.roi]

NoError == [type |-> "none", text |-> "", args |-> <<>>]
NoResult == [year_a |-> 0, year_b |-> 0, urls |-> <<>>]

\* get_aoi falling back to the default rectangle where lines 30-31 raise.
get_aoi_Lenient(bounds) ==
    IF bounds # <<>> /\ Len(bounds) = 4
       /\ \A i \in 1..Len(bounds) : ~FloatRaises(bounds[i])
    THEN [ok |-> TRUE, roi |-> [i \in 1..4 |-> Float(bounds[i])],
          error |-> NoError]
    ELSE [ok |-> TRUE, roi |-> DEFAULT_RECT_BOUNDS, error |-> NoError]

\* get_aoi: the rectangle, or ValueError("Invalid bounds provided").
\* `if bounds:` is false for None and for an empty list.
get_aoi(bounds) ==
    IF bounds # <<>>
    THEN IF (\E i \in 1..Len(bounds) : FloatRaises(bounds[i])) \/ Len(bounds) # 4
         THEN [ok |-> FALSE, roi |-> <<>>,
               error |-> [type |-> "ValueError",
                          text |-> "Invalid bounds provided", args |-> <<>>]]
         ELSE [ok |-> TRUE, roi |-> [i \in 1..4 |-> Float(bounds[i])],
               error |-> NoError]
    ELSE [ok |-> TRUE, roi |-> DEFAULT_RECT_BOUNDS, error |-> NoError]

\* The ee calls of each helper, in the order it makes them.
yearly_dw_label(year, roi) == <<EECall("build", "dw", <<year>>, roi)>>

yearly_s2_rgb(year, roi) == <<EECall("build", "s2", <<year>>, roi)>>

make_change_image(year_a, year_b, roi) ==
    yearly_dw_label(year_a, roi) \o yearly_dw_label(year_b, roi)
      \o <<EECall("neq", "change", <<year_a, year_b>>, roi)>>

Visualize(kind, years, roi) == EECall("visualize", kind, years, roi)

GetThumbURL(kind, years, roi) == EECall("thumbnail", kind, years, roi)

get_tile_template(kind, years, roi) ==
    <<Visualize(kind, years, roi), EECall("tiles", kind, years, roi)>>

\* OrderYears without the swap of lines 110-111.
OrderYears_NoSwap(year_a, year_b) == <<year_a, year_b>>

\* Lines 106-111: ensure order.
OrderYears(year_a, year_b) ==
    IF year_a > year_b THEN <<year_b, year_a>> ELSE <<year_a, year_b>>

\* YearsRejected with `and` for `or`.
YearsRejected_OnlyBoth(year_a, year_b) == ~InYears(year_a) /\ ~InYears(year_b)

\* Line 113: the test that raises.
YearsRejected(year_a, year_b) == ~InYears(year_a) \/ ~InYears(year_b)

YearsError ==
    [type |-> "ValueError", text |-> "Years must be between",
     args |-> <<YEARS[1], YEARS[Len(YEARS)]>>]

\* Lines 116-153 after the rectangle is built: every ee call, in order.
RemoteCalls(year_a, year_b, roi) ==
    yearly_dw_label(year_a, roi)
      \o yearly_dw_label(year_b, roi)
      \o yearly_s2_rgb(year_a, roi)
      \o yearly_s2_rgb(year_b, roi)
      \o make_change_image(year_a, year_b, roi)
      \o <<Visualize("dw", <<year_a>>, roi),
           Visualize("dw", <<year_b>>, roi),
           Visualize("change", <<year_a, year_b>>, roi)>>
      \o <<GetThumbURL("dw", <<year_a>>, roi),
           GetThumbURL("dw", <<year_b>>, roi),
           GetThumbURL("s2", <<year_a>>, roi),
           GetThumbURL("s2", <<year_b>>, roi),
           GetThumbURL("change", <<year_a, year_b>>, roi)>>
      \o get_tile_template("dw", <<year_a>>, roi)
      \o get_tile_template("dw", <<year_b>>, roi)
      \o get_tile_template("change", <<year_a, year_b>>, roi)

\* ResultDict without the tile templates of lines 164-167.
ResultDict_ThumbsOnly(year_a, year_b, roi) ==
    [year_a |-> year_a,
     year_b |-> year_b,
     urls |->
       [dw_a_url |-> Url(GetThumbURL("dw", <<year_a>>, roi)),
        dw_b_url |-> Url(GetThumbURL("dw", <<year_b>>, roi)),
        s2_a_url |-> Url(GetThumbURL("s2", <<year_a>>, roi)),
        s2_b_url |-> Url(GetThumbURL("s2", <<year_b>>, roi)),
        change_url |-> Url(GetThumbURL("change", <<year_a, year_b>>, roi))]]

\* Lines 155-169: the result dictionary.
ResultDict(year_a, year_b, roi) ==
    [year_a |-> year_a,
     year_b |-> year_b,
     urls |->
       [dw_a_url |-> Url(GetThumbURL("dw", <<year_a>>, roi)),
        dw_b_url |-> Url(GetThumbURL("dw", <<year_b>>, roi)),
        s2_a_url |-> Url(GetThumbURL("s2", <<year_a>>, roi)),
        s2_b_url |-> Url(GetThumbURL("s2", <<year_b>>, roi)),
        change_url |-> Url(GetThumbURL("change", <<year_a, year_b>>, roi)),
        dw_a_tiles |-> Url(EECall("tiles", "dw", <<year_a>>, roi)),
        dw_b_tiles |-> Url(EECall("tiles", "dw", <<year_b>>, roi)),
        change_tiles |-> Url(EECall("tiles", "change", <<year_a, year_b>>, roi))]]

\* The exception an ee call raises, as it leaves the function: the code
\* wraps nothing around it.
RemoteError == [type |-> "EEException", text |-> "remote", args |-> <<>>]

\* compare_dw_abudhabi_years.  `served` is the environment: how many of
\* the calls of RemoteCalls succeed before one raises.
compare_dw_abudhabi_years(year_a, year_b, roi_bounds, served) ==
    LET ys == OrderYears(year_a, year_b)
        aoi == get_aoi(roi_bounds)
        rect == <<EECall("rectangle", "aoi", <<>>, aoi.roi)>>
        calls == RemoteCalls(ys[1], ys[2], aoi.roi)
    IN  IF YearsRejected(ys[1], ys[2])
        THEN [raised |-> TRUE, error |-> YearsError, calls |-> <<>>,
              completed |-> 0, result |-> NoResult]
        ELSE IF ~aoi.ok
        THEN [raised |-> TRUE, error |-> aoi.error, calls |-> <<>>,
              completed |-> 0, result |-> NoResult]
        ELSE IF served < Len(calls)
        THEN [raised |-> TRUE, error |-> RemoteError,
              calls |-> rect \o SubSeq(calls, 1, served + 1),
              completed |-> served, result |-> NoResult]
        ELSE [raised |-> FALSE, error |-> NoError,
              calls |-> rect \o calls,
              completed |-> Len(calls),
              result |-> ResultDict(ys[1], ys[2], aoi.roi)]

\* ----------------------------------------------------------------- main.py

\* Optional[int] = None for the years of a ChatRequest.
NoYear == 0

\* ParseLocation taking two numbers as a point, latitude first when the
\* first lies in [-90, 90], widened by 0.05 degrees on each side.
ParseLocation_Point(location) ==
    IF location # <<>> /\ \A i \in 1..Len(location) : ~FloatRaises(location[i])
    THEN IF Len(location) = 4
         THEN [i \in 1..4 |-> Num(Float(location[i]))]
         ELSE IF Len(location) = 2
         THEN LET first == Float(location[1])
                  second == Float(location[2])
                  lat == IF first >= -9000 /\ first <= 9000 THEN first ELSE second
                  lon == IF first >= -9000 /\ first <= 9000 THEN second ELSE first
              IN  <<Num(lon - 5), Num(lat - 5), Num(lon + 5), Num(lat + 5)>>
         ELSE <<>>
    ELSE <<>>

\* Lines 106-114 and 138-145: the bounding box parsed from the location.
\* None (here <<>>) unless the string has exactly four parts and float()
\* accepts each; `if req.location:` is false for None and for "".
ParseLocation(location) ==
    IF location # <<>> /\ Len(location) = 4
       /\ \A i \in 1..Len(location) : ~FloatRaises(location[i])
    THEN [i \in 1..4 |-> Num(Float(location[i]))]
    ELSE <<>>

\* Line 136: the test for the direct path of /chat.
HasYears(req) == req.year_a # NoYear /\ req.year_b # NoYear

ComparisonText(data) ==
    [text |-> "Here is the Dynamic World comparison",
     years |-> <<data.year_a, data.year_b>>]

NotConfiguredText ==
    [text |-> "OpenAI client is not configured on the server", years |-> <<>>]

ModelText == [text |-> "message.content", years |-> <<>>]

\* The response of a handler that called the comparison: the payload, or
\* the exception, which the handlers do not catch.
CompareResponse(out) ==
    IF out.raised
    THEN [status |-> "error", message |-> [text |-> "", years |-> <<>>],
          data |-> NoResult, error |-> out.error]
    ELSE [status |-> "ok", message |-> ComparisonText(out.result),
          data |-> out.result, error |-> NoError]

\* ------------------------------------------------------------------ inputs

FirstYear == YEARS[1]
LastYear == YEARS[Len(YEARS)]

\* The years a request or a tool call may carry: the ends of the supported
\* range and their outer neighbours.
YearInputs == {FirstYear - 1, FirstYear, LastYear, LastYear + 1}

\* 24.47 and 54.37, in hundredths of a degree.
CoordInputs == {2447, 5437}

PartInputs == {Num(c) : c \in CoordInputs} \cup {Word}

\* Location strings split at the commas, and roi_bounds arrays; <<>> is
\* an absent (or empty) one.
LocationInputs == UNION {[1..n -> PartInputs] : n \in 0..MaxParts}

MessageInputs == {"", "compare 2020 and 2024"}

\* The locations of the requests sent down the language-model path, which
\* never reads the field.
UnreadLocationInputs == {<<>>}

\* Every remote behaviour a call of the comparison can meet: the number of
\* its ee calls served before one raises, up to all that it makes.
ServedInputs(year_a, year_b, roi_bounds) ==
    LET all == Len(RemoteCalls(FirstYear, LastYear, DEFAULT_RECT_BOUNDS))
    IN  0..compare_dw_abudhabi_years(year_a, year_b, roi_bounds, all).completed

\* ------------------------------------------------------------ change mask
\* An image is a function from its unmasked pixels to their values.

Pixels == 1..NumPixels
Labels == 0..MaxLabel

Images == UNION {[S -> Labels] : S \in SUBSET Pixels}

clip(img, region) == [p \in (DOMAIN img) \cap region |-> img[p]]

unmask(img, v) == [p \in Pixels |-> IF p \in DOMAIN img THEN img[p] ELSE v]

\* neq as `gt`.
neq_Greater(a, b) ==
    [p \in (DOMAIN a) \cap (DOMAIN b) |-> IF a[p] > b[p] THEN 1 ELSE 0]

neq(a, b) ==
    [p \in (DOMAIN a) \cap (DOMAIN b) |-> IF a[p] # b[p] THEN 1 ELSE 0]

selfMask(img) == [p \in {q \in DOMAIN img : img[q] # 0} |-> img[p]]

\* yearly_dw_label on pixels: `mode` is the per-pixel mode of the year's
\* observations, masked where there are none.
LabelImage(mode, region) == unmask(clip(mode, region), 0)

\* make_change_image on pixels.
ChangeImage(lbl_a, lbl_b, region) == clip(selfMask(neq(lbl_a, lbl_b)), region)

\* ------------------------------------------------------------------- state

VARIABLES
    client,      \* whether OPENAI_API_KEY gave a client at start-up
    phase,       \* "idle" | "responded"
    entry,       \* the handler that served the request
    req,         \* the request body
    llm,         \* the exchange with the language model, if any
    cmp,         \* the call of compare_dw_abudhabi_years, if any
    response,    \* what the caller gets
    dpc,         \* change-mask model: "data" | "labels" | "change"
    mode_a,      \* change-mask model: per-pixel modes of the two years
    mode_b,
    region,      \* change-mask model: the pixels inside the AOI
    lbl_a,       \* change-mask model: the two label images
    lbl_b,
    change       \* change-mask model: the mask

vars == <<client, phase, entry, req, llm, cmp, response,
          dpc, mode_a, mode_b, region, lbl_a, lbl_b, change>>

serverVars == <<client, phase, entry, req, llm, cmp, response>>
maskVars == <<dpc, mode_a, mode_b, region, lbl_a, lbl_b, change>>

NoRequest == [year_a |-> NoYear, year_b |-> NoYear, location |-> <<>>,
              message |-> ""]
NoLlm == [contacted |-> FALSE, reply |-> "none", fn |-> "",
          args |-> [year_a |-> NoYear, year_b |-> NoYear, roi_bounds |-> <<>>]]
NoCompare == [called |-> FALSE, year_a |-> NoYear, year_b |-> NoYear,
              roi_bounds |-> <<>>,
              out |-> [raised |-> FALSE, error |-> NoError, calls |-> <<>>,
                       completed |-> 0, result |-> NoResult]]
NoResponse == [status |-> "none", message |-> [text |-> "", years |-> <<>>],
               data |-> NoResult, error |-> NoError]

\* Line 147: the call of the direct path of /chat.
ChatDirectCall_NoBounds(r, served) ==
    [called |-> TRUE, year_a |-> r.year_a, year_b |-> r.year_b,
     roi_bounds |-> <<>>,
     out |-> compare_dw_abudhabi_years(r.year_a, r.year_b, <<>>, served)]

\* A call of the comparison and what came of it.
Compared(year_a, year_b, roi_bounds, served) ==
    [called |-> TRUE, year_a |-> year_a, year_b |-> year_b,
     roi_bounds |-> roi_bounds,
     out |-> compare_dw_abudhabi_years(year_a, year_b, roi_bounds, served)]

\* Line 147, with the bounds of lines 138-145.
ChatDirectCall(r, served) ==
    Compared(r.year_a, r.year_b, ParseLocation(r.location), served)

ServerInit ==
    /\ client \in BOOLEAN
    /\ phase = "idle"
    /\ entry = "none"
    /\ req = NoRequest
    /\ llm = NoLlm
    /\ cmp = NoCompare
    /\ response = NoResponse

MaskIdle ==
    /\ dpc = "data"
    /\ mode_a = <<>>
    /\ mode_b = <<>>
    /\ region = {}
    /\ lbl_a = <<>>
    /\ lbl_b = <<>>
    /\ change = <<>>

Init == ServerInit /\ MaskIdle

\* ---------------------------------------------------------------- handlers

\* POST /compare_abudhabi_dw
compare_abudhabi_dw ==
    /\ phase = "idle"
    /\ \E ya \in YearInputs, yb \in YearInputs, loc \in LocationInputs :
         \E served \in ServedInputs(ya, yb, ParseLocation(loc)) :
         LET c == Compared(ya, yb, ParseLocation(loc), served)
         IN  /\ req' = [year_a |-> ya, year_b |-> yb, location |-> loc,
                         message |-> ""]
             /\ cmp' = c
             /\ response' = CompareResponse(c.out)
    /\ entry' = "compare_abudhabi_dw"
    /\ llm' = NoLlm
    /\ phase' = "responded"
    /\ UNCHANGED <<client, maskVars>>

\* POST /chat with both years: lines 136-152.
chat_direct ==
    /\ phase = "idle"
    /\ \E ya \in YearInputs, yb \in YearInputs, loc \in LocationInputs,
          msg \in MessageInputs :
         \E served \in ServedInputs(ya, yb, ParseLocation(loc)) :
         LET r == [year_a |-> ya, year_b |-> yb, location |-> loc,
                   message |-> msg]
             c == ChatDirectCall(r, served)
         IN  /\ HasYears(r)
             /\ req' = r
             /\ cmp' = c
             /\ response' = CompareResponse(c.out)
    /\ entry' = "chat"
    /\ llm' = NoLlm
    /\ phase' = "responded"
    /\ UNCHANGED <<client, maskVars>>

\* The requests that leave the direct path: a year is missing.
ChatOnlyRequests(locations) ==
    {r \in [year_a : {NoYear, FirstYear}, year_b : {NoYear, LastYear},
            location : locations, message : MessageInputs] : ~HasYears(r)}

\* chat_not_configured without the test of line 156: the completion is
\* requested of None, which raises.
chat_not_configured_NoTest ==
    /\ phase = "idle"
    /\ ~client
    /\ \E r \in ChatOnlyRequests(LocationInputs) : req' = r
    /\ response' = [status |-> "error", message |-> [text |-> "", years |-> <<>>],
                    data |-> NoResult,
                    error |-> [type |-> "AttributeError", text |-> "NoneType",
                               args |-> <<>>]]
    /\ entry' = "chat"
    /\ llm' = NoLlm
    /\ cmp' = NoCompare
    /\ phase' = "responded"
    /\ UNCHANGED <<client, maskVars>>

\* POST /chat without both years, no client: lines 155-162.
chat_not_configured ==
    /\ phase = "idle"
    /\ ~client
    /\ \E r \in ChatOnlyRequests(LocationInputs) : req' = r
    /\ response' = [status |-> "ok", message |-> NotConfiguredText,
                    data |-> NoResult, error |-> NoError]
    /\ entry' = "chat"
    /\ llm' = NoLlm
    /\ cmp' = NoCompare
    /\ phase' = "responded"
    /\ UNCHANGED <<client, maskVars>>

\* POST /chat without both years: the completion request raises.
chat_llm_fails ==
    /\ phase = "idle"
    /\ client
    /\ \E r \in ChatOnlyRequests(UnreadLocationInputs) : req' = r
    /\ llm' = [NoLlm EXCEPT !.contacted = TRUE, !.reply = "error"]
    /\ cmp' = NoCompare
    /\ response' = [status |-> "error", message |-> [text |-> "", years |-> <<>>],
                    data |-> NoResult,
                    error |-> [type |-> "OpenAIError", text |-> "remote",
                               args |-> <<>>]]
    /\ entry' = "chat"
    /\ phase' = "responded"
    /\ UNCHANGED <<client, maskVars>>

\* POST /chat without both years: the model answers in text, or calls a
\* tool of another name: lines 228-232.
chat_llm_text ==
    /\ phase = "idle"
    /\ client
    /\ \E r \in ChatOnlyRequests(UnreadLocationInputs) : req' = r
    /\ \E how \in {"text", "other_tool"} :
         llm' = [NoLlm EXCEPT !.contacted = TRUE, !.reply = how,
                              !.fn = IF how = "text" THEN "" ELSE "other"]
    /\ cmp' = NoCompare
    /\ response' = [status |-> "ok", message |-> ModelText,
                    data |-> NoResult, error |-> NoError]
    /\ entry' = "chat"
    /\ phase' = "responded"
    /\ UNCHANGED <<client, maskVars>>

\* POST /chat without both years: the model calls the comparison with its
\* own arguments: lines 206-226.
chat_llm_tool ==
    /\ phase = "idle"
    /\ client
    /\ \E r \in ChatOnlyRequests(UnreadLocationInputs) : req' = r
    /\ \E ya \in YearInputs, yb \in YearInputs, rb \in LocationInputs :
         \E served \in ServedInputs(ya, yb, rb) :
         LET args == [year_a |-> ya, year_b |-> yb, roi_bounds |-> rb]
             c == Compared(args.year_a, args.year_b, args.roi_bounds, served)
         IN  /\ llm' = [contacted |-> TRUE, reply |-> "tool",
                         fn |-> "compare_dw_abudhabi_years", args |-> args]
             /\ cmp' = c
             /\ response' = CompareResponse(c.out)
    /\ entry' = "chat"
    /\ phase' = "responded"
    /\ UNCHANGED <<client, maskVars>>

chat ==
    \/ chat_direct
    \/ chat_not_configured
    \/ chat_llm_fails
    \/ chat_llm_text
    \/ chat_llm_tool

\* The response is sent; the server holds nothing of the request.
NextRequest ==
    /\ phase = "responded"
    /\ phase' = "idle"
    /\ entry' = "none"
    /\ req' = NoRequest
    /\ llm' = NoLlm
    /\ cmp' = NoCompare
    /\ response' = NoResponse
    /\ UNCHANGED <<client, maskVars>>

Next == compare_abudhabi_dw \/ chat \/ NextRequest

Spec == Init /\ [][Next]_vars

\* ------------------------------------------------------- change mask, run
\* The change mask on pixels: the data of two years and the AOI are drawn,
\* the two label images are built, the mask is taken.

MaskInit ==
    /\ ServerInit
    /\ ~client
    /\ dpc = "data"
    /\ mode_a \in Images
    /\ mode_b \in Images
    /\ region \in SUBSET Pixels
    /\ lbl_a = <<>>
    /\ lbl_b = <<>>
    /\ change = <<>>

\* Lines 79-80.
BuildLabels ==
    /\ dpc = "data"
    /\ lbl_a' = LabelImage(mode_a, region)
    /\ lbl_b' = LabelImage(mode_b, region)
    /\ dpc' = "labels"
    /\ UNCHANGED <<serverVars, mode_a, mode_b, region, change>>

\* Line 81.
DetectChange ==
    /\ dpc = "labels"
    /\ change' = ChangeImage(lbl_a, lbl_b, region)
    /\ dpc' = "change"
    /\ UNCHANGED <<serverVars, mode_a, mode_b, region, lbl_a, lbl_b>>

MaskNext == BuildLabels \/ DetectChange

MaskSpec == MaskInit /\ [][MaskNext]_vars

\* ------------------------------------------------------------- properties

Supported(c) == InYears(c.year_a) /\ InYears(c.year_b)

\* An input that names no rectangle: some text, but not four numbers.
Unresolvable(x) ==
    x # <<>> /\ (Len(x) # 4 \/ \E i \in 1..Len(x) : FloatRaises(x[i]))

FourNumbers(x) == Len(x) = 4 /\ \A i \in 1..Len(x) : ~FloatRaises(x[i])

InvalidBounds(out) ==
    out.raised /\ out.error.type = "ValueError"
    /\ out.error.text = "Invalid bounds provided"

\* The request came in by an endpoint that parses req.location.
ByLocation == cmp.called /\ llm.reply # "tool"
\* The comparison was called by the model's tool call.
ByToolCall == cmp.called /\ llm.reply = "tool"

\* The rectangle of a call of the comparison that got as far as building it.
UsedAoi == cmp.out.calls[1].roi

\* C1: a comparison of two supported years given larger first issues the
\* calls, and ends with the outcome, of the comparison of the same years
\* given smaller first, over the same bounds and against the same remote
\* behaviour; a result holds the smaller year as year_a, the larger as year_b.
C1_OrderNormalized ==
    (cmp.called /\ Supported(cmp) /\ cmp.year_a > cmp.year_b) =>
        /\ cmp.out = compare_dw_abudhabi_years(cmp.year_b, cmp.year_a,
                                                cmp.roi_bounds, cmp.out.completed)
        /\ ~cmp.out.raised =>
             /\ cmp.out.result.year_a = cmp.year_b
             /\ cmp.out.result.year_b = cmp.year_a

C1_Witness ==
    /\ cmp.called
    /\ cmp.year_a = LastYear /\ cmp.year_b = FirstYear
    /\ ~cmp.out.raised
    /\ cmp.out.result.year_a = FirstYear

\* C2: a comparison given a year outside 2020..2024 raises the ValueError
\* that names 2020 and 2024, and makes no ee call at all.
C2_UnsupportedYearRaisesBeforeAnyCall ==
    (cmp.called /\ ~Supported(cmp)) =>
        /\ cmp.out.raised
        /\ cmp.out.error.type = "ValueError"
        /\ cmp.out.error.text = "Years must be between"
        /\ cmp.out.error.args = <<2020, 2024>>
        /\ cmp.out.calls = <<>>
        /\ response.status = "error"
        /\ response.error = cmp.out.error

C2_Witness ==
    /\ cmp.called
    /\ cmp.year_a = FirstYear - 1 /\ cmp.year_b = FirstYear
    /\ cmp.out.raised
    /\ cmp.out.calls = <<>>

\* C3: a /chat request with both years is answered with the outcome of
\* the comparison called with those years and the bounds parsed from the
\* location, and the language model is not contacted, with or without a
\* client and whatever the message.
C3_DirectPathIsTheComparison ==
    (phase = "responded" /\ entry = "chat" /\ HasYears(req)) =>
        /\ ~llm.contacted
        /\ cmp.called
        /\ cmp.year_a = req.year_a /\ cmp.year_b = req.year_b
        /\ cmp.roi_bounds = ParseLocation(req.location)
        /\ LET direct == compare_dw_abudhabi_years(
                             req.year_a, req.year_b,
                             ParseLocation(req.location), cmp.out.completed)
           IN  IF direct.raised
               THEN response.status = "error" /\ response.error = direct.error
               ELSE response.status = "ok" /\ response.data = direct.result

C3_Witness ==
    /\ phase = "responded" /\ entry = "chat" /\ HasYears(req)
    /\ client
    /\ req.message # ""
    /\ FourNumbers(req.location)
    /\ response.status = "ok"
    /\ response.data.year_a = FirstYear /\ response.data.year_b = LastYear

ArtifactKeys ==
    {"dw_a_url", "dw_b_url", "s2_a_url", "s2_b_url", "change_url",
     "dw_a_tiles", "dw_b_tiles", "change_tiles"}

IsArtifact(u, how, kind, years) ==
    u.url = how /\ u.kind = kind /\ u.years = years /\ u.roi = UsedAoi

\* C4: a comparison that returns holds year_a <= year_b, both supported,
\* and the eight artifacts: five thumbnails, three tile templates, each of
\* its own layer and year, over the rectangle used.
C4_ResultIsComplete ==
    (cmp.called /\ ~cmp.out.raised) =>
        LET r == cmp.out.result
            a == <<r.year_a>>
            b == <<r.year_b>>
            ab == <<r.year_a, r.year_b>>
        IN  /\ r.year_a <= r.year_b
            /\ InYears(r.year_a) /\ InYears(r.year_b)
            /\ DOMAIN r.urls = ArtifactKeys
            /\ IsArtifact(r.urls.dw_a_url, "thumbnail", "dw", a)
            /\ IsArtifact(r.urls.dw_b_url, "thumbnail", "dw", b)
            /\ IsArtifact(r.urls.s2_a_url, "thumbnail", "s2", a)
            /\ IsArtifact(r.urls.s2_b_url, "thumbnail", "s2", b)
            /\ IsArtifact(r.urls.change_url, "thumbnail", "change", ab)
            /\ IsArtifact(r.urls.dw_a_tiles, "tiles", "dw", a)
            /\ IsArtifact(r.urls.dw_b_tiles, "tiles", "dw", b)
            /\ IsArtifact(r.urls.change_tiles, "tiles", "change", ab)
            /\ response.data = r

C4_Witness ==
    /\ cmp.called /\ ~cmp.out.raised
    /\ cmp.year_a = LastYear /\ cmp.year_b = FirstYear
    /\ cmp.roi_bounds = <<>>
    /\ DOMAIN cmp.out.result.urls = ArtifactKeys

\* C5: a comparison in which an ee call raises ends there, with no
\* payload and no call after the one that raised, and the error that
\* reaches the caller names the layer kind and the year of that call.
C5_FailFastNamesTheArtifact ==
    (cmp.called /\ cmp.out.raised /\ cmp.out.error.type = "EEException") =>
        LET failed == cmp.out.calls[Len(cmp.out.calls)]
        IN  /\ cmp.out.result = NoResult
            /\ response.status = "error"
            /\ response.data = NoResult
            /\ Len(cmp.out.calls) = cmp.out.completed + 2
            /\ response.error.args = <<failed.kind, failed.years>>

\* C6, as claimed: on every entry path an input that names no rectangle
\* ends in the default AOI, never in an invalid-bounds error.
C6_Original ==
    /\ (ByLocation /\ Supported(cmp) /\ Unresolvable(req.location)) =>
          ~InvalidBounds(cmp.out) /\ UsedAoi = DEFAULT_RECT_BOUNDS
    /\ (ByToolCall /\ Supported(cmp) /\ Unresolvable(llm.args.roi_bounds)) =>
          ~InvalidBounds(cmp.out) /\ UsedAoi = DEFAULT_RECT_BOUNDS

\* C6, amended: on the two paths that parse req.location no invalid-bounds
\* error reaches the caller and a location that names no rectangle ends in
\* the default AOI; a tool call whose roi_bounds is not empty and is not
\* four numbers ends in the invalid-bounds ValueError, before any ee call.
C6_LocationLenientBoundsStrict ==
    /\ ByLocation => ~InvalidBounds(cmp.out)
    /\ (ByLocation /\ Supported(cmp) /\ Unresolvable(req.location)) =>
          UsedAoi = DEFAULT_RECT_BOUNDS
    /\ (ByToolCall /\ Supported(cmp) /\ Unresolvable(llm.args.roi_bounds)) =>
          /\ InvalidBounds(cmp.out)
          /\ cmp.out.calls = <<>>
          /\ response.status = "error"
          /\ response.error = cmp.out.error

C6_Witness ==
    /\ ByToolCall /\ Supported(cmp)
    /\ Len(llm.args.roi_bounds) = 3
    /\ \A i \in 1..3 : ~FloatRaises(llm.args.roi_bounds[i])
    /\ InvalidBounds(cmp.out)
    /\ response.status = "error"

\* The box of 0.05 degrees around the point two numbers name, latitude
\* first when the first number lies in [-90, 90].
PointBox(location) ==
    LET first == Float(location[1])
        second == Float(location[2])
        lat == IF first >= -9000 /\ first <= 9000 THEN first ELSE second
        lon == IF first >= -9000 /\ first <= 9000 THEN second ELSE first
    IN  <<lon - 5, lat - 5, lon + 5, lat + 5>>

TwoNumbers(x) == Len(x) = 2 /\ \A i \in 1..Len(x) : ~FloatRaises(x[i])

WellFormedAoi(r) ==
    /\ r[1] < r[3] /\ r[2] < r[4]
    /\ r[1] >= -18000 /\ r[3] <= 18000
    /\ r[2] >= -9000 /\ r[4] <= 9000

\* C8: every rectangle a layer build or a render call is made over is
\* well formed, and four
\* numbers that are ordered minLon < maxLon, minLat < maxLat are used
\* as they are.
C8_EveryAoiWellFormed ==
    cmp.called =>
        /\ \A i \in 1..Len(cmp.out.calls) :
              cmp.out.calls[i].op # "rectangle" =>
                  WellFormedAoi(cmp.out.calls[i].roi)
        /\ (Supported(cmp) /\ FourNumbers(cmp.roi_bounds)
            /\ Float(cmp.roi_bounds[1]) < Float(cmp.roi_bounds[3])
            /\ Float(cmp.roi_bounds[2]) < Float(cmp.roi_bounds[4])) =>
              UsedAoi = [i \in 1..4 |-> Float(cmp.roi_bounds[i])]

C10_ChangeIsSymmetric ==
    dpc = "change" =>
        /\ change = ChangeImage(lbl_b, lbl_a, region)
        /\ DOMAIN change = {p \in region : lbl_a[p] # lbl_b[p]}
        /\ \A p \in DOMAIN change : change[p] = 1

C10_Witness ==
    /\ dpc = "change"
    /\ \E p \in region : p \notin DOMAIN mode_a /\ p \notin DOMAIN mode_b
                         /\ p \notin DOMAIN change
    /\ \E p \in DOMAIN change : lbl_a[p] > lbl_b[p]

====
